---- MODULE Spec2Model ----
(***************************************************************************)
(* A model of the stimmt library (src/src/lib.rs): typed access to the     *)
(* Swiss voting-day open data.  The library is a set of pure functions     *)
(* over parsed values plus four straight-line entry points, so the model   *)
(* has one specification per component:                                    *)
(*   SpecMetrics   - the derived metrics of impl Outcome                   *)
(*   SpecTitle     - Issue::get_title                                      *)
(*   SpecSelector  - get_latest_url over a catalog                         *)
(*   SpecSchema    - the serde mapping of the data model, both directions  *)
(*   SpecAssembler - get_data_by_url / get_latest, national and cantonal   *)
(*                                                                         *)
(* Representation.  A u32 is a pair of 16-bit limbs [hi, lo], so that the  *)
(* true width 2^32 is kept although TLC's integers are 32-bit signed.  A   *)
(* String is a sequence of code points (String::cmp is the byte order of   *)
(* UTF-8, which is the code point order).  An f64 is NaN, +inf, or the     *)
(* real number num/den it approximates: IEEE special values are modelled   *)
(* exactly, the rounding of finite results is not, and no formula below    *)
(* rests on the exact value of a finite f64.                               *)
(***************************************************************************)
EXTENDS Integers, Sequences, FiniteSets, TLC

VARIABLES
    outcome,            \* the Outcome the metrics are called on
    overflow_checks,    \* the build's overflow-checks setting (on in debug, off in release)
    call,               \* the last metric called, "none" before the first call
    ret,                \* what that call produced
    issue_title,        \* the title list of the Issue get_title is called on
    lang,               \* the language asked for
    title,              \* what get_title returned, NotCalled before the call
    entry,              \* the entry point called: [module, latest]
    pc,                 \* where the call stands
    catalog_response,   \* what the catalog server answers: NetErr or a body
    dataset_response,   \* what the dataset server answers: NetErr or a body
    response,           \* the local `response`: the body last read
    resources,          \* get_latest_url's local `resources`
    url,                \* the local `url`
    requested,          \* the URLs requested so far, in order
    log,                \* the stages run so far, in order
    result,             \* what the call returned, Pending until it returns
    encoded,            \* serde_json::to_string of the parsed Data
    reparsed            \* serde_json::from_str of that text

metricVars == <<outcome, overflow_checks, call, ret>>

titleVars == <<issue_title, lang, title>>

envVars == <<entry, catalog_response, dataset_response>>

asmVars == <<pc, response, resources, url, requested, log, result>>

tripVars == <<encoded, reparsed>>

vars == <<outcome, overflow_checks, call, ret, issue_title, lang, title,
          entry, pc, catalog_response, dataset_response, response, resources, url,
          requested, log, result, encoded, reparsed>>

\* Option<T>
None == [some |-> FALSE]

Some(x) == [some |-> TRUE, v |-> x]

NotCalled == [called |-> FALSE]

----------------------------------------------------------------------------
(* u32 arithmetic in two 16-bit limbs.                                     *)

Limb == 65536

\* Values near both ends of the range are drawn: 0..SmallMax and the
\* SmallMax+1 largest values, plus 2^31.
SmallMax == 1

U32(hi, lo) == [hi |-> hi, lo |-> lo]

U32Zero == U32(0, 0)

U32Max == U32(Limb - 1, Limb - 1)

IsZero(a) == a.hi = 0 /\ a.lo = 0

\* a < b on limb pairs (hi may exceed a limb for a not yet reduced sum)
Less(a, b) == a.hi < b.hi \/ (a.hi = b.hi /\ a.lo < b.lo)

\* the mathematical sum, hi not reduced modulo 2^16
WideAdd(a, b) ==
    LET lo == a.lo + b.lo
    IN  U32(a.hi + b.hi + (lo \div Limb), lo % Limb)

\* the mathematical difference a - b, for b <= a
WideSub(a, b) ==
    LET borrow == IF a.lo < b.lo THEN 1 ELSE 0
    IN  U32(a.hi - b.hi - borrow, a.lo + borrow * Limb - b.lo)

Overflows(w) == w.hi >= Limb

\* reduction modulo 2^32
Wrap(w) == U32(w.hi % Limb, w.lo)

\* what a call hands back: a value, or the panic that unwinds the caller
Ok(v) == [k |-> "ok", v |-> v]

Panic == [k |-> "panic"]

\* u32 + u32: `attempt to add with overflow` when the build checks, modulo 2^32 otherwise
u32_add(a, b, checks) ==
    LET w == WideAdd(a, b)
    IN  IF Overflows(w) THEN (IF checks THEN Panic ELSE Ok(Wrap(w))) ELSE Ok(w)

\* u32 - u32: `attempt to subtract with overflow` when the build checks, modulo 2^32 otherwise
u32_sub(a, b, checks) ==
    IF Less(a, b)
    THEN (IF checks THEN Panic
          ELSE Ok(Wrap(WideSub(U32(a.hi + Limb, a.lo), b))))
    ELSE Ok(WideSub(a, b))

----------------------------------------------------------------------------
(* f64: the two operations the metrics use.                                *)

NaN == [k |-> "nan"]

Inf == [k |-> "inf"]

Fin(num, den) == [k |-> "fin", num |-> num, den |-> den]

\* 1.0 / (d as f64): +inf for d = 0
f64_recip(d) == IF IsZero(d) THEN Inf ELSE Fin(U32(0, 1), d)

\* x * (n as f64) for x a result of f64_recip: inf * 0.0 is NaN
f64_mul(x, n) ==
    IF x.k = "inf" THEN (IF IsZero(n) THEN NaN ELSE Inf)
    ELSE Fin(n, x.den)

----------------------------------------------------------------------------
(* impl Outcome                                                            *)

valid_votes(self, checks) == u32_add(self.yes_votes, self.no_votes, checks)

invalid_votes(self, checks) ==
    LET v == valid_votes(self, checks)
    IN  IF v.k = "panic" THEN Panic
        ELSE u32_sub(self.cast_ballot_papers, v.v, checks)

yes_ratio(self, checks) ==
    LET v == valid_votes(self, checks)
    IN  IF v.k = "panic" THEN Panic
        ELSE f64_mul(f64_recip(v.v), self.yes_votes)

no_ratio(self, checks) ==
    LET v == valid_votes(self, checks)
    IN  IF v.k = "panic" THEN Panic
        ELSE f64_mul(f64_recip(v.v), self.no_votes)

valid_votes_ratio(self, checks) ==
    LET v == valid_votes(self, checks)
    IN  IF v.k = "panic" THEN Panic
        ELSE f64_mul(f64_recip(self.cast_ballot_papers), v.v)

invalid_votes_ratio(self, checks) ==
    LET i == invalid_votes(self, checks)
    IN  IF i.k = "panic" THEN Panic
        ELSE f64_mul(f64_recip(self.cast_ballot_papers), i.v)

turnout(self, checks) ==
    LET v == valid_votes(self, checks)
    IN  IF v.k = "panic" THEN Panic
        ELSE f64_mul(f64_recip(self.eligible_voters), v.v)

----------------------------------------------------------------------------
(* SpecMetrics: any Outcome the Schema Mapper can produce (four            *)
(* independent u32 fields), either build, any sequence of metric calls     *)
(* up to the first panic.                                                  *)

U32Samples ==
    {U32(0, n) : n \in 0..SmallMax}
        \cup {U32(Limb - 1, Limb - 1 - n) : n \in 0..SmallMax}
        \cup {U32(Limb \div 2, 0)}

Outcomes ==
    [count_completed : BOOLEAN, yes_votes : U32Samples, no_votes : U32Samples,
     cast_ballot_papers : U32Samples, eligible_voters : U32Samples]

IdleMetrics ==
    /\ outcome = [count_completed |-> FALSE, yes_votes |-> U32Zero, no_votes |-> U32Zero,
                  cast_ballot_papers |-> U32Zero, eligible_voters |-> U32Zero]
    /\ overflow_checks = TRUE
    /\ call = "none"
    /\ ret = Ok(U32Zero)

IdleTitle ==
    /\ issue_title = <<>>
    /\ lang = "DE"
    /\ title = NotCalled

Pending == [returned |-> FALSE]

\* a request reqwest answers with an error instead of a body
NetErr == [t |-> "neterr"]

\* no text yet
Unset == [t |-> "unset"]

IdleAssembler ==
    /\ entry = [module |-> "national", latest |-> FALSE]
    /\ pc = "idle"
    /\ catalog_response = NetErr
    /\ dataset_response = NetErr
    /\ response = Unset
    /\ resources = <<>>
    /\ url = <<>>
    /\ requested = <<>>
    /\ log = <<>>
    /\ result = Pending
    /\ encoded = Unset
    /\ reparsed = Pending

InitMetrics ==
    /\ outcome \in Outcomes
    /\ overflow_checks \in BOOLEAN
    /\ call = "none"
    /\ ret = Ok(U32Zero)
    /\ IdleTitle
    /\ IdleAssembler

Call_valid_votes ==
    /\ ret.k # "panic"
    /\ call' = "valid_votes"
    /\ ret' = valid_votes(outcome, overflow_checks)
    /\ UNCHANGED <<outcome, overflow_checks, titleVars, envVars, asmVars, tripVars>>

Call_invalid_votes ==
    /\ ret.k # "panic"
    /\ call' = "invalid_votes"
    /\ ret' = invalid_votes(outcome, overflow_checks)
    /\ UNCHANGED <<outcome, overflow_checks, titleVars, envVars, asmVars, tripVars>>

Call_yes_ratio ==
    /\ ret.k # "panic"
    /\ call' = "yes_ratio"
    /\ ret' = yes_ratio(outcome, overflow_checks)
    /\ UNCHANGED <<outcome, overflow_checks, titleVars, envVars, asmVars, tripVars>>

Call_no_ratio ==
    /\ ret.k # "panic"
    /\ call' = "no_ratio"
    /\ ret' = no_ratio(outcome, overflow_checks)
    /\ UNCHANGED <<outcome, overflow_checks, titleVars, envVars, asmVars, tripVars>>

Call_valid_votes_ratio ==
    /\ ret.k # "panic"
    /\ call' = "valid_votes_ratio"
    /\ ret' = valid_votes_ratio(outcome, overflow_checks)
    /\ UNCHANGED <<outcome, overflow_checks, titleVars, envVars, asmVars, tripVars>>

Call_invalid_votes_ratio ==
    /\ ret.k # "panic"
    /\ call' = "invalid_votes_ratio"
    /\ ret' = invalid_votes_ratio(outcome, overflow_checks)
    /\ UNCHANGED <<outcome, overflow_checks, titleVars, envVars, asmVars, tripVars>>

Call_turnout ==
    /\ ret.k # "panic"
    /\ call' = "turnout"
    /\ ret' = turnout(outcome, overflow_checks)
    /\ UNCHANGED <<outcome, overflow_checks, titleVars, envVars, asmVars, tripVars>>

NextMetrics ==
    \/ Call_valid_votes
    \/ Call_invalid_votes
    \/ Call_yes_ratio
    \/ Call_no_ratio
    \/ Call_valid_votes_ratio
    \/ Call_invalid_votes_ratio
    \/ Call_turnout

SpecMetrics == InitMetrics /\ [][NextMetrics]_vars

----------------------------------------------------------------------------
(* Issue::get_title, national and cantonal                                 *)

Lang == {"DE", "FR", "IT", "RM", "EN"}

\* char::is_whitespace: the code points with the Unicode White_Space property
char_is_whitespace(c) ==
    \/ c \in {9, 10, 11, 12, 13, 32, 133, 160, 5760, 8232, 8233, 8239, 8287, 12288}
    \/ c \in 8192..8202

\* title.text.chars().all(char::is_whitespace): true of the empty text
all_whitespace(text) == \A i \in DOMAIN text : char_is_whitespace(text[i])

\* the closure handed to find_map
title_closure(t, l) ==
    IF t.lang = l /\ ~all_whitespace(t.text) THEN Some(t.text) ELSE None

\* Iterator::find_map from position i on: the first Some the closure returns
RECURSIVE find_map_title(_, _, _)
find_map_title(titles, l, i) ==
    IF i > Len(titles) THEN None
    ELSE LET r == title_closure(titles[i], l)
         IN  IF r.some THEN r ELSE find_map_title(titles, l, i + 1)

\* a scan that ends at the first entry of the language, blank or not
RECURSIVE find_first_of_lang(_, _, _)
find_first_of_lang(titles, l, i) ==
    IF i > Len(titles) THEN None
    ELSE IF titles[i].lang = l THEN title_closure(titles[i], l)
    ELSE find_first_of_lang(titles, l, i + 1)

national_get_title_stops_at_blank(self, l) == find_first_of_lang(self.issue_title, l, 1)

national_get_title(self, l) == find_map_title(self.issue_title, l, 1)

cantonal_get_title(self, l) == find_map_title(self.issue_title, l, 1)

\* Texts: empty, blank (one and two white-space characters), "A", "B", " A"
Texts == {<<>>, <<32>>, <<9, 32>>, <<65>>, <<66>>, <<32, 65>>}

MaxTitles == 2

IssueTitles == [lang : Lang, text : Texts]

SeqUpTo(S, n) == UNION {[1..m -> S] : m \in 0..n}

InitTitle ==
    /\ issue_title \in SeqUpTo(IssueTitles, MaxTitles)
    /\ lang \in Lang
    /\ title = NotCalled
    /\ IdleMetrics
    /\ IdleAssembler

Call_national_get_title ==
    /\ title = NotCalled
    /\ title' = [called |-> TRUE, module |-> "national",
                 r |-> national_get_title([issue_title |-> issue_title], lang)]
    /\ UNCHANGED <<issue_title, lang, metricVars, envVars, asmVars, tripVars>>

Call_cantonal_get_title ==
    /\ title = NotCalled
    /\ title' = [called |-> TRUE, module |-> "cantonal",
                 r |-> cantonal_get_title([issue_title |-> issue_title], lang)]
    /\ UNCHANGED <<issue_title, lang, metricVars, envVars, asmVars, tripVars>>

NextTitle == Call_national_get_title \/ Call_cantonal_get_title

SpecTitle == InitTitle /\ [][NextTitle]_vars

----------------------------------------------------------------------------
(* The wire format.  A document is the tree of JSON tokens of a text, or   *)
(* NotJson for a text serde_json cannot read as JSON at all; the lexical   *)
(* layer (white space, escapes, the spelling of numbers) is not modelled.  *)
(* An object is the sequence of its members as written, so that a          *)
(* repeated key and the order of the members are part of the document.     *)

NotJson == [t |-> "notjson"]

JNull == [t |-> "null"]

JBool(b) == [t |-> "bool", b |-> b]

\* a non-negative integer literal of magnitude hi * 2^16 + lo (hi unbounded)
JUInt(hi, lo) == [t |-> "uint", hi |-> hi, lo |-> lo]

\* a negative integer literal, a literal with a fraction or an exponent
JNegInt == [t |-> "negint"]

JFloat == [t |-> "float"]

JStr(s) == [t |-> "str", s |-> s]

JArr(xs) == [t |-> "arr", a |-> xs]

JObj(members) == [t |-> "obj", m |-> members]

Member(k, v) == [k |-> k, v |-> v]

\* serde results
DeOk(v) == [ok |-> TRUE, v |-> v]

DeErr == [ok |-> FALSE]

Min(S) == CHOOSE x \in S : \A y \in S : x <= y

\* What a derived struct visitor finds for one field: in an object the
\* members carrying the field's wire name (n of them, the first one's value);
\* in an array the element at the field's position.
Field(j, key, pos) ==
    IF j.t = "obj"
    THEN LET idx == {i \in DOMAIN j.m : j.m[i].k = key}
         IN  [n |-> Cardinality(idx),
              v |-> IF idx = {} THEN JNull ELSE j.m[Min(idx)].v]
    ELSE [n |-> IF pos <= Len(j.a) THEN 1 ELSE 0,
          v |-> IF pos <= Len(j.a) THEN j.a[pos] ELSE JNull]

\* deserialize_struct: an object (visit_map), or an array holding exactly one
\* element per field (visit_seq: invalid_length when shorter, trailing
\* characters when longer); anything else is an invalid type
StructShape(j, nfields) ==
    \/ j.t = "obj"
    \/ j.t = "arr" /\ Len(j.a) = nfields

----------------------------------------------------------------------------
(* serde.  What #[derive(Serialize, Deserialize)] generates is determined  *)
(* by the type: its fields in order, each with its rename and its type.    *)
(* A type is described by such a table, and de and ser are the derived     *)
(* impls read off the table.                                               *)

T_bool == [kind |-> "bool"]

T_u8 == [kind |-> "u8"]

T_u32 == [kind |-> "u32"]

T_String == [kind |-> "String"]

OptionOf(t) == [kind |-> "Option", of |-> t]

VecOf(t) == [kind |-> "Vec", of |-> t]

Struct(fields) == [kind |-> "struct", fields |-> fields]

\* a field: its Rust name, its #[serde(rename)], its type
F(name, key, ty) == [name |-> name, key |-> key, ty |-> ty]

\* the identifiers of the variants of Lang, as code points
VariantIdent(l) ==
    CASE l = "DE" -> <<68, 69>>
      [] l = "FR" -> <<70, 82>>
      [] l = "IT" -> <<73, 84>>
      [] l = "RM" -> <<82, 77>>
      [] l = "EN" -> <<69, 78>>

\* the wire names as object keys, for the map form of an enum
VariantKey(l) ==
    CASE l = "DE" -> "de"
      [] l = "FR" -> "fr"
      [] l = "IT" -> "it"
      [] l = "RM" -> "rm"
      [] l = "EN" -> "en"

\* rename_all = "lowercase"
to_lowercase(s) == [i \in DOMAIN s |-> IF s[i] \in 65..90 THEN s[i] + 32 ELSE s[i]]

T_Lang == [kind |-> "Lang"]

IssueTitle_T ==
    Struct(<<F("lang", "langKey", T_Lang),
             F("text", "text", T_String)>>)

Outcome_T ==
    Struct(<<F("count_completed", "gebietAusgezaehlt", T_bool),
             F("yes_votes", "jaStimmenAbsolut", T_u32),
             F("no_votes", "neinStimmenAbsolut", T_u32),
             F("cast_ballot_papers", "eingelegteStimmzettel", T_u32),
             F("eligible_voters", "anzahlStimmberechtigte", T_u32)>>)

District_T ==
    Struct(<<F("geo_levelnumber", "geoLevelnummer", T_String),
             F("geo_levelname", "geoLevelname", T_String),
             F("outcome", "resultat", Outcome_T)>>)

Commune_T ==
    Struct(<<F("geo_levelnumber", "geoLevelnummer", T_String),
             F("geo_levelname", "geoLevelname", T_String),
             F("geo_level_parentnumber", "geoLevelParentnummer", T_String),
             F("outcome", "resultat", Outcome_T)>>)

Constituency_T == Commune_T

national_OutcomeCantons_T ==
    Struct(<<F("yes_full_cantons", "jaStaendeGanz", T_u8),
             F("no_full_cantons", "neinStaendeGanz", T_u8),
             F("full_canton_count", "anzahlStaendeGanz", T_u8),
             F("yes_half_cantons", "jaStaendeHalb", T_u8),
             F("no_half_cantons", "neinStaendeHalb", T_u8),
             F("half_canton_count", "anzahlStaendeHalb", T_u8)>>)

national_Canton_T ==
    Struct(<<F("geo_levelnumber", "geoLevelnummer", T_String),
             F("geo_levelname", "geoLevelname", T_String),
             F("outcome", "resultat", Outcome_T),
             F("districts", "bezirke", OptionOf(VecOf(District_T))),
             F("communes", "gemeinden", OptionOf(VecOf(Commune_T))),
             F("constituencies", "zaehlkreise", OptionOf(VecOf(Constituency_T)))>>)

national_Issue_T ==
    Struct(<<F("issue_id", "vorlagenId", T_u32),
             F("display_order", "reihenfolgeAnzeige", T_u32),
             F("issue_title", "vorlagenTitel", VecOf(IssueTitle_T)),
             F("issue_completed", "vorlageBeendet", T_bool),
             F("provisional", "provisorisch", T_bool),
             F("issue_accepted", "vorlageAngenommen", T_bool),
             F("issue_type_id", "vorlagenArtId", T_u32),
             F("main_issue_id", "hauptvorlagenId", T_u32),
             F("reserve_info_text", "reserveInfoText", OptionOf(T_String)),
             F("double_majority", "doppeltesMehr", T_bool),
             F("outcome_cantons", "staende", national_OutcomeCantons_T),
             F("outcome", "resultat", Outcome_T),
             F("cantons", "kantone", VecOf(national_Canton_T))>>)

national_Country_T ==
    Struct(<<F("geo_levelnumber", "geoLevelnummer", T_u8),
             F("geo_levelname", "geoLevelname", T_String),
             F("no_infos_yet", "nochKeineInformation", T_bool),
             F("issues", "vorlagen", VecOf(national_Issue_T))>>)

national_Data_T ==
    Struct(<<F("abstimmtag", "abstimmtag", T_String),
             F("timestamp", "timestamp", T_String),
             F("country", "schweiz", national_Country_T)>>)

cantonal_Issue_T ==
    Struct(<<F("issue_id", "vorlagenId", T_u32),
             F("display_order", "reihenfolgeAnzeige", T_u32),
             F("issue_title", "vorlagenTitel", VecOf(IssueTitle_T)),
             F("issue_completed", "vorlageBeendet", T_bool),
             F("issue_accepted", "vorlageAngenommen", T_bool),
             F("issue_type_id", "vorlagenArtId", T_u32),
             F("main_issue_id", "hauptvorlagenId", OptionOf(T_u32)),
             F("outcome", "resultat", Outcome_T),
             F("districts", "bezirke", OptionOf(VecOf(District_T))),
             F("communes", "gemeinden", OptionOf(VecOf(Commune_T))),
             F("constituencies", "zaehlkreise", OptionOf(VecOf(Constituency_T)))>>)

cantonal_Canton_T ==
    Struct(<<F("geo_levelnumber", "geoLevelnummer", T_u8),
             F("geo_levelname", "geoLevelname", T_String),
             F("no_infos_yet", "nochKeineInformation", T_bool),
             F("issues", "vorlagen", VecOf(cantonal_Issue_T))>>)

cantonal_Data_T ==
    Struct(<<F("abstimmtag", "abstimmtag", T_String),
             F("timestamp", "timestamp", T_String),
             F("kantone", "kantone", VecOf(cantonal_Canton_T))>>)

\* the types local to get_latest_url
Resource_T ==
    Struct(<<F("coverage", "coverage", T_String),
             F("url", "url", T_String)>>)

Resources_T == Struct(<<F("resources", "resources", VecOf(Resource_T))>>)

Results_T == Struct(<<F("result", "result", Resources_T)>>)

\* Lang: a unit variant reads from its wire name as a string, or from
\* {"name": null}
de_Lang(j) ==
    LET hit == {l \in Lang :
                   \/ j.t = "str" /\ j.s = to_lowercase(VariantIdent(l))
                   \/ /\ j.t = "obj"
                      /\ Len(j.m) = 1
                      /\ j.m[1].k = VariantKey(l)
                      /\ j.m[1].v.t = "null"}
    IN  IF hit = {} THEN DeErr ELSE DeOk(CHOOSE l \in hit : TRUE)

ser_Lang(l) == JStr(to_lowercase(VariantIdent(l)))

\* the struct value made of the fields' values
StructValue(fields, vals) ==
    [name \in {fields[i].name : i \in DOMAIN fields} |->
        vals[CHOOSE i \in DOMAIN fields : fields[i].name = name]]

\* Deserialize for a value of type ty from the document j
RECURSIVE de(_, _)
de(ty, j) ==
    CASE ty.kind = "bool" -> IF j.t = "bool" THEN DeOk(j.b) ELSE DeErr
      [] ty.kind = "u8" ->
            IF j.t = "uint" /\ j.hi = 0 /\ j.lo <= 255 THEN DeOk(j.lo) ELSE DeErr
      [] ty.kind = "u32" ->
            IF j.t = "uint" /\ j.hi < Limb THEN DeOk(U32(j.hi, j.lo)) ELSE DeErr
      [] ty.kind = "String" -> IF j.t = "str" THEN DeOk(j.s) ELSE DeErr
      [] ty.kind = "Lang" -> de_Lang(j)
      [] ty.kind = "Option" ->
            IF j.t = "null" THEN DeOk(None)
            ELSE LET r == de(ty.of, j) IN IF r.ok THEN DeOk(Some(r.v)) ELSE DeErr
      [] ty.kind = "Vec" ->
            IF j.t # "arr" THEN DeErr
            ELSE LET rs == [i \in DOMAIN j.a |-> de(ty.of, j.a[i])]
                 IN  IF \A i \in DOMAIN rs : rs[i].ok
                     THEN DeOk([i \in DOMAIN rs |-> rs[i].v])
                     ELSE DeErr
      [] ty.kind = "struct" ->
            IF ~StructShape(j, Len(ty.fields)) THEN DeErr
            ELSE LET rs == [i \in DOMAIN ty.fields |->
                               LET f == Field(j, ty.fields[i].key, i)
                                   t == ty.fields[i].ty
                               IN  \* a missing Option member is None; any other
                                   \* missing member and any repeated one is an error
                                   IF f.n = 1 THEN de(t, f.v)
                                   ELSE IF f.n = 0 /\ t.kind = "Option" THEN DeOk(None)
                                   ELSE DeErr]
                 IN  IF \A i \in DOMAIN rs : rs[i].ok
                     THEN DeOk(StructValue(ty.fields, [i \in DOMAIN rs |-> rs[i].v]))
                     ELSE DeErr

\* an encoder that writes a field under its Rust name
ser_key_unrenamed(f) == f.name

\* the key Serialize writes a field under: its rename
ser_key(f) == f.key

\* Serialize: a struct as an object of all its fields in order, None as null
RECURSIVE ser(_, _)
ser(ty, v) ==
    CASE ty.kind = "bool" -> JBool(v)
      [] ty.kind = "u8" -> JUInt(0, v)
      [] ty.kind = "u32" -> JUInt(v.hi, v.lo)
      [] ty.kind = "String" -> JStr(v)
      [] ty.kind = "Lang" -> ser_Lang(v)
      [] ty.kind = "Option" -> IF v.some THEN ser(ty.of, v.v) ELSE JNull
      [] ty.kind = "Vec" -> JArr([i \in DOMAIN v |-> ser(ty.of, v[i])])
      [] ty.kind = "struct" ->
            JObj([i \in DOMAIN ty.fields |->
                    Member(ser_key(ty.fields[i]),
                           ser(ty.fields[i].ty, v[ty.fields[i].name]))])

\* serde_json::from_str::<T>: a text that is not JSON fails, so does a JSON
\* document the Deserialize impl rejects
from_str(ty, text) == IF text.t = "notjson" THEN DeErr ELSE de(ty, text)

\* serde_json::to_string
to_string(ty, v) == ser(ty, v)

Data_T(module) == IF module = "national" THEN national_Data_T ELSE cantonal_Data_T

----------------------------------------------------------------------------
(* get_latest_url                                                          *)

\* String::cmp from position i on: the order of the first differing code
\* point, a proper prefix being Less
RECURSIVE str_cmp(_, _, _)
str_cmp(a, b, i) ==
    IF i > Len(a) /\ i > Len(b) THEN "Equal"
    ELSE IF i > Len(a) THEN "Less"
    ELSE IF i > Len(b) THEN "Greater"
    ELSE IF a[i] < b[i] THEN "Less"
    ELSE IF a[i] > b[i] THEN "Greater"
    ELSE str_cmp(a, b, i + 1)

\* a comparison with its arguments exchanged
compare_coverage_reversed(a, b) == str_cmp(b.coverage, a.coverage, 1)

\* the closure |a, b| a.coverage.cmp(&b.coverage)
compare_coverage(a, b) == str_cmp(a.coverage, b.coverage, 1)

\* a fold step that keeps the earlier of two equal elements
max_by_step_keeps_first(x, y) == IF compare_coverage(x, y) = "Less" THEN y ELSE x

\* the fold step of Iterator::max_by: x only when it compares Greater
max_by_step(x, y) == IF compare_coverage(x, y) = "Greater" THEN x ELSE y

RECURSIVE max_by_reduce(_, _, _)
max_by_reduce(rs, i, acc) ==
    IF i > Len(rs) THEN acc ELSE max_by_reduce(rs, i + 1, max_by_step(acc, rs[i]))

\* resources.iter().max_by(..)
max_by_coverage(rs) == IF rs = <<>> THEN None ELSE Some(max_by_reduce(rs, 2, rs[1]))

national_catalog_url ==
    <<
      104, 116, 116, 112, 115, 58, 47, 47, 99, 107, 97, 110, 46, 111, 112, 101, 110,
      100, 97, 116, 97, 46, 115, 119, 105, 115, 115, 47, 97, 112, 105, 47, 51, 47, 97,
      99, 116, 105, 111, 110, 47, 112, 97, 99, 107, 97, 103, 101, 95, 115, 104, 111,
      119, 63, 105, 100, 61, 101, 99, 104, 116, 122, 101, 105, 116, 100, 97, 116, 101,
      110, 45, 97, 109, 45, 97, 98, 115, 116, 105, 109, 109, 117, 110, 103, 115, 116,
      97, 103, 45, 122, 117, 45, 101, 105, 100, 103, 101, 110, 111, 101, 115, 115, 105,
      115, 99, 104, 101, 110, 45, 97, 98, 115, 116, 105, 109, 109, 117, 110, 103, 115,
      118, 111, 114, 108, 97, 103, 101, 110
    >>

cantonal_catalog_url ==
    <<
      104, 116, 116, 112, 115, 58, 47, 47, 99, 107, 97, 110, 46, 111, 112, 101, 110,
      100, 97, 116, 97, 46, 115, 119, 105, 115, 115, 47, 97, 112, 105, 47, 51, 47, 97,
      99, 116, 105, 111, 110, 47, 112, 97, 99, 107, 97, 103, 101, 95, 115, 104, 111,
      119, 63, 105, 100, 61, 101, 99, 104, 116, 122, 101, 105, 116, 100, 97, 116, 101,
      110, 45, 97, 109, 45, 97, 98, 115, 116, 105, 109, 109, 117, 110, 103, 115, 116,
      97, 103, 45, 122, 117, 45, 107, 97, 110, 116, 111, 110, 97, 108, 101, 110, 45,
      97, 98, 115, 116, 105, 109, 109, 117, 110, 103, 115, 118, 111, 114, 108, 97, 103,
      101, 110
    >>

\* what a call returns
Returned(v) == [returned |-> TRUE, ok |-> TRUE, v |-> v]

Failed(e) == [returned |-> TRUE, ok |-> FALSE, err |-> e]

Latest(e) == e.latest

\* reqwest::get(url).await?.text().await? on the catalog URL
CatalogFetch ==
    /\ pc = "start"
    /\ Latest(entry)
    /\ log' = Append(log, "catalog_fetch")
    /\ requested' = Append(requested, url)
    /\ IF catalog_response.t = "neterr"
       THEN /\ pc' = "done"
            /\ result' = Failed("reqwest")
            /\ UNCHANGED response
       ELSE /\ pc' = "catalog_fetched"
            /\ response' = catalog_response
            /\ UNCHANGED result
    /\ UNCHANGED <<resources, url, envVars, metricVars, titleVars, tripVars>>

\* serde_json::from_str::<Results>(&response)?
CatalogParse ==
    /\ pc = "catalog_fetched"
    /\ log' = Append(log, "catalog_parse")
    /\ LET r == from_str(Results_T, response)
       IN  IF r.ok
           THEN /\ pc' = "catalog_parsed"
                /\ resources' = r.v.result.resources
                /\ UNCHANGED result
           ELSE /\ pc' = "done"
                /\ result' = Failed("serde_json")
                /\ UNCHANGED resources
    /\ UNCHANGED <<response, url, requested, envVars, metricVars, titleVars, tripVars>>

\* a caller that does not rebind url to what get_latest_url returned
Select_keeps_url ==
    /\ pc = "catalog_parsed"
    /\ log' = Append(log, "select")
    /\ LET resource == max_by_coverage(resources)
       IN  IF resource.some
           THEN /\ pc' = "url_selected"
                /\ UNCHANGED <<url, result>>
           ELSE /\ pc' = "done"
                /\ result' = Failed("no resources found")
                /\ UNCHANGED url
    /\ UNCHANGED <<response, resources, requested, envVars, metricVars, titleVars, tripVars>>

\* max_by, then Ok(resource.url.clone()) or the "no resources found" error;
\* the caller's `let url = get_latest_url(url).await?` rebinds url
Select ==
    /\ pc = "catalog_parsed"
    /\ log' = Append(log, "select")
    /\ LET resource == max_by_coverage(resources)
       IN  IF resource.some
           THEN /\ pc' = "url_selected"
                /\ url' = resource.v.url
                /\ UNCHANGED result
           ELSE /\ pc' = "done"
                /\ result' = Failed("no resources found")
                /\ UNCHANGED url
    /\ UNCHANGED <<response, resources, requested, envVars, metricVars, titleVars, tripVars>>

\* reqwest::get(url).await?.text().await? on the dataset URL: the first
\* statement of get_data_by_url, the second of get_latest
DatasetFetch ==
    /\ \/ pc = "start" /\ ~Latest(entry)
       \/ pc = "url_selected"
    /\ log' = Append(log, "dataset_fetch")
    /\ requested' = Append(requested, url)
    /\ IF dataset_response.t = "neterr"
       THEN /\ pc' = "done"
            /\ result' = Failed("reqwest")
            /\ UNCHANGED response
       ELSE /\ pc' = "dataset_fetched"
            /\ response' = dataset_response
            /\ UNCHANGED result
    /\ UNCHANGED <<resources, url, envVars, metricVars, titleVars, tripVars>>

\* serde_json::from_str::<Data>(&response)?; Ok(data)
Map ==
    /\ pc = "dataset_fetched"
    /\ log' = Append(log, "map")
    /\ pc' = "done"
    /\ LET r == from_str(Data_T(entry.module), response)
       IN  result' = IF r.ok THEN Returned(r.v) ELSE Failed("serde_json")
    /\ UNCHANGED <<response, resources, url, requested, envVars, metricVars, titleVars,
                   tripVars>>

\* serde_json::to_string(&data): Serialize is derived for every type of the tree
Encode ==
    /\ pc = "done"
    /\ result.ok
    /\ encoded = Unset
    /\ encoded' = to_string(Data_T(entry.module), result.v)
    /\ UNCHANGED <<reparsed, envVars, asmVars, metricVars, titleVars>>

\* serde_json::from_str::<Data> of the encoded text
Reparse ==
    /\ encoded # Unset
    /\ reparsed = Pending
    /\ LET r == from_str(Data_T(entry.module), encoded)
       IN  reparsed' = IF r.ok THEN Returned(r.v) ELSE Failed("serde_json")
    /\ UNCHANGED <<encoded, envVars, asmVars, metricVars, titleVars>>

----------------------------------------------------------------------------
(* The documents the servers may answer with.                              *)

\* coverage labels: "", "1", "2", "11", "12", "21"
Labels == {<<>>, <<49>>, <<50>>, <<49, 49>>, <<49, 50>>, <<50, 49>>}

\* dataset URLs: "u1", "u2"
Urls == {<<117, 49>>, <<117, 50>>}

MaxResources == 3

ResourceDoc(r) ==
    JObj(<<Member("coverage", JStr(r.coverage)), Member("url", JStr(r.url))>>)

\* a package_show answer: the members the library reads and one it ignores
CatalogDoc(rs) ==
    JObj(<<Member("success", JBool(TRUE)),
           Member("result",
                  JObj(<<Member("resources", JArr([i \in DOMAIN rs |-> ResourceDoc(rs[i])]))>>))>>)

Catalogs == {CatalogDoc(rs) : rs \in SeqUpTo([coverage : Labels, url : Urls], MaxResources)}

\* answers get_latest_url cannot read: no JSON, no "result", "resources"
\* null, a resource without a url
BadCatalogs ==
    {NotJson,
     JObj(<<Member("success", JBool(FALSE))>>),
     JObj(<<Member("result", JObj(<<Member("resources", JNull)>>))>>),
     JObj(<<Member("result",
                   JObj(<<Member("resources",
                                 JArr(<<JObj(<<Member("coverage", JStr(<<49>>))>>)>>))>>))>>)}

\* "ZH", "A", " ", "20240922"
StrZH == <<90, 72>>

StrA == <<65>>

StrBlank == <<32>>

StrDay == <<50, 48, 50, 52, 48, 57, 50, 50>>

SubForms == {"absent", "null", "empty", "one"}

OptForms == {"absent", "null", "value"}

TitleForms == {"none", "de", "de_fr_blank"}

\* documents serde accepts in an unusual spelling, and documents it rejects
BenignVariants == {"plain", "outcome_array", "unknown_key", "lang_map_form", "max_u32",
                   "data_array"}

Defects == {"dup_key", "missing_required", "u32_too_big", "negative", "float",
            "u8_too_big", "lang_uppercase", "bad_sub_type", "array_short"}

Variants == BenignVariants \cup Defects

DocChoices ==
    [bez : SubForms, gem : SubForms, zk : SubForms, opt : OptForms,
     titles : TitleForms, variant : Variants]

OptMember(key, form, value) ==
    IF form = "absent" THEN <<>>
    ELSE <<Member(key, IF form = "null" THEN JNull ELSE value)>>

PlainOutcomeDoc ==
    JObj(<<Member("gebietAusgezaehlt", JBool(TRUE)),
           Member("jaStimmenAbsolut", JUInt(0, 5)),
           Member("neinStimmenAbsolut", JUInt(0, 3)),
           Member("eingelegteStimmzettel", JUInt(0, 9)),
           Member("anzahlStimmberechtigte", JUInt(0, 20))>>)

OutcomeDocWith(yes) ==
    JObj(<<Member("gebietAusgezaehlt", JBool(TRUE)),
           Member("jaStimmenAbsolut", yes),
           Member("neinStimmenAbsolut", JUInt(0, 3)),
           Member("eingelegteStimmzettel", JUInt(0, 9)),
           Member("anzahlStimmberechtigte", JUInt(0, 20))>>)

OutcomeDoc(variant) ==
    CASE variant = "outcome_array" ->
            JArr(<<JBool(TRUE), JUInt(0, 5), JUInt(0, 3), JUInt(0, 9), JUInt(0, 20)>>)
      [] variant = "array_short" ->
            JArr(<<JBool(TRUE), JUInt(0, 5), JUInt(0, 3), JUInt(0, 9)>>)
      [] variant = "unknown_key" ->
            JObj(<<Member("extra", JFloat)>> \o PlainOutcomeDoc.m)
      [] variant = "dup_key" ->
            JObj(PlainOutcomeDoc.m \o <<Member("jaStimmenAbsolut", JUInt(0, 5))>>)
      [] variant = "missing_required" ->
            JObj(SubSeq(PlainOutcomeDoc.m, 1, 3))
      [] variant = "u32_too_big" -> OutcomeDocWith(JUInt(Limb, 0))
      [] variant = "max_u32" -> OutcomeDocWith(JUInt(Limb - 1, Limb - 1))
      [] variant = "negative" -> OutcomeDocWith(JNegInt)
      [] variant = "float" -> OutcomeDocWith(JFloat)
      [] OTHER -> PlainOutcomeDoc

LangDoc(variant, key, name) ==
    CASE variant = "lang_map_form" -> JObj(<<Member(key, JNull)>>)
      [] variant = "lang_uppercase" -> JStr([i \in DOMAIN name |-> name[i] - 32])
      [] OTHER -> JStr(name)

TitleDoc(l, text) == JObj(<<Member("langKey", l), Member("text", JStr(text))>>)

TitlesDoc(form, variant) ==
    CASE form = "none" -> JArr(<<>>)
      [] form = "de" -> JArr(<<TitleDoc(LangDoc(variant, "de", <<100, 101>>), StrA)>>)
      [] form = "de_fr_blank" ->
            JArr(<<TitleDoc(LangDoc(variant, "de", <<100, 101>>), StrA),
                   TitleDoc(LangDoc(variant, "fr", <<102, 114>>), StrBlank)>>)

DistrictDoc ==
    JObj(<<Member("geoLevelnummer", JStr(StrA)), Member("geoLevelname", JStr(StrZH)),
           Member("resultat", PlainOutcomeDoc)>>)

CommuneDoc ==
    JObj(<<Member("geoLevelnummer", JStr(StrA)), Member("geoLevelname", JStr(StrZH)),
           Member("geoLevelParentnummer", JStr(StrA)),
           Member("resultat", PlainOutcomeDoc)>>)

SubDoc(form, elem) == IF form = "one" THEN JArr(<<elem>>) ELSE JArr(<<>>)

\* the three subdivision members, each absent, null, empty or holding one unit
SubMembers(c) ==
    (IF c.variant = "bad_sub_type" THEN <<Member("bezirke", JStr(StrA))>>
     ELSE OptMember("bezirke", c.bez, SubDoc(c.bez, DistrictDoc)))
        \o OptMember("gemeinden", c.gem, SubDoc(c.gem, CommuneDoc))
        \o OptMember("zaehlkreise", c.zk, SubDoc(c.zk, CommuneDoc))

U8Doc(variant) == IF variant = "u8_too_big" THEN JUInt(0, 256) ELSE JUInt(0, 255)

StaendeDoc ==
    JObj(<<Member("jaStaendeGanz", JUInt(0, 12)), Member("neinStaendeGanz", JUInt(0, 8)),
           Member("anzahlStaendeGanz", JUInt(0, 20)), Member("jaStaendeHalb", JUInt(0, 4)),
           Member("neinStaendeHalb", JUInt(0, 2)), Member("anzahlStaendeHalb", JUInt(0, 6))>>)

NationalCantonDoc(c) ==
    JObj(<<Member("geoLevelnummer", JStr(StrA)), Member("geoLevelname", JStr(StrZH)),
           Member("resultat", PlainOutcomeDoc)>> \o SubMembers(c))

NationalIssueDoc(c) ==
    JObj(<<Member("vorlagenId", JUInt(0, 6710)),
           Member("reihenfolgeAnzeige", JUInt(0, 1)),
           Member("vorlagenTitel", TitlesDoc(c.titles, c.variant)),
           Member("vorlageBeendet", JBool(TRUE)),
           Member("provisorisch", JBool(FALSE)),
           Member("vorlageAngenommen", JBool(TRUE)),
           Member("vorlagenArtId", JUInt(0, 2)),
           Member("hauptvorlagenId", JUInt(0, 0))>>
         \o OptMember("reserveInfoText", c.opt, JStr(StrA))
         \o <<Member("doppeltesMehr", JBool(TRUE)),
              Member("staende", StaendeDoc),
              Member("resultat", OutcomeDoc(c.variant)),
              Member("kantone", JArr(<<NationalCantonDoc(c)>>))>>)

CountryDoc(c) ==
    JObj(<<Member("geoLevelnummer", U8Doc(c.variant)), Member("geoLevelname", JStr(StrZH)),
           Member("nochKeineInformation", JBool(FALSE)),
           Member("vorlagen", JArr(<<NationalIssueDoc(c)>>))>>)

NationalDoc(c) ==
    IF c.variant = "data_array"
    THEN JArr(<<JStr(StrDay), JStr(StrDay), CountryDoc(c)>>)
    ELSE JObj(<<Member("abstimmtag", JStr(StrDay)), Member("timestamp", JStr(StrDay)),
                Member("schweiz", CountryDoc(c))>>)

CantonalIssueDoc(c) ==
    JObj(<<Member("vorlagenId", JUInt(0, 6710)),
           Member("reihenfolgeAnzeige", JUInt(0, 1)),
           Member("vorlagenTitel", TitlesDoc(c.titles, c.variant)),
           Member("vorlageBeendet", JBool(TRUE)),
           Member("vorlageAngenommen", JBool(TRUE)),
           Member("vorlagenArtId", JUInt(0, 2))>>
         \o OptMember("hauptvorlagenId", c.opt, JUInt(0, 7))
         \o <<Member("resultat", OutcomeDoc(c.variant))>>
         \o SubMembers(c))

CantonalCantonDoc(c) ==
    JObj(<<Member("geoLevelnummer", U8Doc(c.variant)), Member("geoLevelname", JStr(StrZH)),
           Member("nochKeineInformation", JBool(FALSE)),
           Member("vorlagen", JArr(<<CantonalIssueDoc(c)>>))>>)

CantonalDoc(c) ==
    IF c.variant = "data_array"
    THEN JArr(<<JStr(StrDay), JStr(StrDay), JArr(<<CantonalCantonDoc(c)>>)>>)
    ELSE JObj(<<Member("abstimmtag", JStr(StrDay)), Member("timestamp", JStr(StrDay)),
                Member("kantone", JArr(<<CantonalCantonDoc(c)>>))>>)

DatasetDoc(module, c) == IF module = "national" THEN NationalDoc(c) ELSE CantonalDoc(c)

CatalogUrl(module) ==
    IF module = "national" THEN national_catalog_url ELSE cantonal_catalog_url

Modules == {"national", "cantonal"}

FreshCall ==
    /\ pc = "start"
    /\ response = Unset
    /\ resources = <<>>
    /\ requested = <<>>
    /\ log = <<>>
    /\ result = Pending
    /\ encoded = Unset
    /\ reparsed = Pending

----------------------------------------------------------------------------
(* SpecSelector: get_latest_url against every catalog of up to            *)
(* MaxResources resources, and against answers it cannot read.             *)

InitSelector ==
    /\ entry \in [module : Modules, latest : {TRUE}]
    /\ url = CatalogUrl(entry.module)
    /\ catalog_response \in {NetErr} \cup BadCatalogs \cup Catalogs
    /\ dataset_response = NetErr
    /\ FreshCall
    /\ IdleMetrics
    /\ IdleTitle

NextSelector == CatalogFetch \/ CatalogParse \/ Select

SpecSelector == InitSelector /\ [][NextSelector]_vars

----------------------------------------------------------------------------
(* SpecSchema: get_data_by_url on every document of DocChoices, then the   *)
(* parsed Data encoded and read again.                                     *)

InitSchema ==
    /\ entry \in [module : Modules, latest : {FALSE}]
    /\ url = <<117, 49>>
    /\ catalog_response = NetErr
    /\ \E c \in DocChoices : dataset_response = DatasetDoc(entry.module, c)
    /\ FreshCall
    /\ IdleMetrics
    /\ IdleTitle

NextSchema == DatasetFetch \/ Map \/ Encode \/ Reparse

SpecSchema == InitSchema /\ [][NextSchema]_vars

----------------------------------------------------------------------------
(* SpecAssembler: the four entry points against servers that fail, answer  *)
(* with text that is not JSON, or answer with a document of either kind.   *)

AssemblerCatalogs ==
    {NetErr, NotJson, CatalogDoc(<<>>),
     CatalogDoc(<<[coverage |-> <<49>>, url |-> <<117, 49>>],
                  [coverage |-> <<50>>, url |-> <<117, 50>>]>>),
     CatalogDoc(<<[coverage |-> <<50>>, url |-> <<117, 49>>],
                  [coverage |-> <<49, 50>>, url |-> <<117, 50>>]>>)}

AssemblerChoices ==
    [bez : {"one"}, gem : {"absent", "one"}, zk : {"null"}, opt : OptForms,
     titles : {"de_fr_blank"}, variant : {"plain", "missing_required"}]

AssemblerDatasets ==
    {NetErr, NotJson} \cup {DatasetDoc(m, c) : m \in Modules, c \in AssemblerChoices}

InitAssembler ==
    /\ entry \in [module : Modules, latest : BOOLEAN]
    /\ url \in (IF entry.latest THEN {CatalogUrl(entry.module)} ELSE Urls)
    /\ catalog_response \in AssemblerCatalogs
    /\ dataset_response \in AssemblerDatasets
    /\ FreshCall
    /\ IdleMetrics
    /\ IdleTitle

NextAssembler == CatalogFetch \/ CatalogParse \/ Select \/ DatasetFetch \/ Map

SpecAssembler == InitAssembler /\ [][NextAssembler]_vars

----------------------------------------------------------------------------
(* Outcome Metrics: properties (SpecMetrics)                               *)

TrueValidVotes == WideAdd(outcome.yes_votes, outcome.no_votes)

\* C1: invalid_votes yields an explicit ArithmeticUnderflow outcome when
\* yes_votes + no_votes > cast_ballot_papers (no wrapped value, no abort),
\* and cast_ballot_papers - (yes_votes + no_votes) otherwise.
C1_InvalidVotesReportsUnderflow ==
    call = "invalid_votes" =>
        IF Less(outcome.cast_ballot_papers, TrueValidVotes)
        THEN ret.k = "ArithmeticUnderflow"
        ELSE ret = Ok(WideSub(outcome.cast_ballot_papers, TrueValidVotes))

RatioCalls == {"yes_ratio", "no_ratio", "valid_votes_ratio", "invalid_votes_ratio", "turnout"}

\* the denominator of a ratio, as the specification defines it
Denominator(name) ==
    CASE name \in {"yes_ratio", "no_ratio"} -> TrueValidVotes
      [] name \in {"valid_votes_ratio", "invalid_votes_ratio"} -> outcome.cast_ballot_papers
      [] name = "turnout" -> outcome.eligible_voters

\* C2: a ratio with a zero denominator returns an "undefined" sentinel (read
\* generously: any non-finite f64) without crashing, whatever the numerator,
\* and a ratio with a non-zero denominator never returns a sentinel.
C2_ZeroDenominatorYieldsSentinel ==
    call \in RatioCalls =>
        IF IsZero(Denominator(call))
        THEN ret.k \in {"nan", "inf"}
        ELSE ret.k \notin {"nan", "inf"}

\* C5: whenever cast_ballot_papers > 0, both validity ratios are numbers and
\* valid_votes + invalid_votes = cast_ballot_papers, so that the two ratios
\* add up to 1.
C5_ValidityRatiosSumToOne ==
    (call = "invalid_votes_ratio" /\ ~IsZero(outcome.cast_ballot_papers)) =>
        LET v == valid_votes_ratio(outcome, overflow_checks)
        IN  /\ v.k = "fin"
            /\ ret.k = "fin"
            /\ WideAdd(v.num, ret.num) = outcome.cast_ballot_papers

\* C9: valid_votes returns the mathematical sum yes_votes + no_votes for all
\* 32-bit counts: no wrap modulo 2^32 and no abort.
C9_ValidVotesIsTrueSum ==
    call = "valid_votes" => ret = Ok(TrueValidVotes)

----------------------------------------------------------------------------
(* Title Resolver: properties (SpecTitle)                                  *)

\* an entry get_title may return: of the language, with a character that is
\* not white space
Eligible(t, l) == t.lang = l /\ \E k \in DOMAIN t.text : ~char_is_whitespace(t.text[k])

\* C4: get_title (national and cantonal) returns the text of the first entry
\* of the requested language whose text is not entirely white space, and
\* absent exactly when there is none; a blank entry of the language does not
\* end the scan.
C4_GetTitleFirstNonBlank ==
    title.called =>
        LET hits == {i \in DOMAIN issue_title : Eligible(issue_title[i], lang)}
        IN  IF hits = {} THEN title.r = None
            ELSE title.r = Some(issue_title[Min(hits)].text)

\* a blank entry of the requested language precedes a non-blank one, which
\* is returned
C4_Witness ==
    /\ title.called
    /\ Len(issue_title) >= 2
    /\ issue_title[1].lang = lang /\ issue_title[1].text = <<32>>
    /\ issue_title[2].lang = lang /\ issue_title[2].text = <<66>>
    /\ title.r = Some(<<66>>)

----------------------------------------------------------------------------
(* Latest-Resource Selector: properties (SpecSelector)                     *)

\* a <= b in the lexicographic order of strings: a is a prefix of b, or a is
\* smaller at the first position where they differ
LexLeq(a, b) ==
    \/ Len(a) <= Len(b) /\ \A k \in DOMAIN a : a[k] = b[k]
    \/ \E p \in DOMAIN a \cap DOMAIN b :
          /\ a[p] < b[p]
          /\ \A k \in 1..(p - 1) : a[k] = b[k]

IsMaxLabel(rs, i) == \A k \in DOMAIN rs : LexLeq(rs[k].coverage, rs[i].coverage)

Selected == log # <<>> /\ log[Len(log)] = "select"

\* C3: over the resource list of the catalog, the selector returns the URL of
\* a descriptor of the list whose label is lexicographically greatest, and
\* fails with "no resources found", returning no URL, when the list is empty.
C3_SelectsMaximumLabel ==
    Selected =>
        /\ CatalogDoc(resources) = catalog_response
        /\ IF resources = <<>>
           THEN /\ pc = "done"
                /\ result = Failed("no resources found")
                /\ url = CatalogUrl(entry.module)
           ELSE /\ pc = "url_selected"
                /\ result = Pending
                /\ \E i \in DOMAIN resources :
                      resources[i].url = url /\ IsMaxLabel(resources, i)

\* three resources, the greatest label in the middle (a proper prefix of it
\* before, a smaller label after), and its URL selected
C3_Witness ==
    /\ Selected
    /\ Len(resources) = 3
    /\ resources[1] = [coverage |-> <<49>>, url |-> <<117, 49>>]
    /\ resources[2] = [coverage |-> <<49, 50>>, url |-> <<117, 50>>]
    /\ resources[3] = [coverage |-> <<49, 49>>, url |-> <<117, 49>>]
    /\ url = <<117, 50>>

\* C10: among the descriptors that share the maximum label, the selector
\* returns the URL of the last one in catalog order.
C10_TieSelectsLast ==
    (Selected /\ resources # <<>>) =>
        LET tied == {i \in DOMAIN resources : IsMaxLabel(resources, i)}
            last == CHOOSE i \in tied : \A k \in tied : k <= i
        IN  url = resources[last].url

\* two descriptors share the maximum label under different URLs; the later
\* one's URL is selected, so exchanging the two would select the other URL
C10_Witness ==
    /\ Selected
    /\ Len(resources) = 3
    /\ resources[1] = [coverage |-> <<50>>, url |-> <<117, 50>>]
    /\ resources[2] = [coverage |-> <<50>>, url |-> <<117, 49>>]
    /\ resources[3] = [coverage |-> <<49, 50>>, url |-> <<117, 50>>]
    /\ url = <<117, 49>>

----------------------------------------------------------------------------
(* Schema Mapper: properties (SpecSchema)                                  *)

Populated(o) == o.some /\ o.v # <<>>

\* the number of populated subdivision collections of a Canton / cantonal Issue
PopulatedCount(x) ==
    Cardinality({f \in {"districts", "communes", "constituencies"} : Populated(x[f])})

Mapped == result.returned /\ result.ok

\* C6: every Canton and every cantonal Issue the mapper produces has at most
\* one populated subdivision collection.
C6_SubdivisionsExclusive ==
    Mapped =>
        IF entry.module = "national"
        THEN \A i \in DOMAIN result.v.country.issues :
                \A c \in DOMAIN result.v.country.issues[i].cantons :
                    PopulatedCount(result.v.country.issues[i].cantons[c]) <= 1
        ELSE \A k \in DOMAIN result.v.kantone :
                \A i \in DOMAIN result.v.kantone[k].issues :
                    PopulatedCount(result.v.kantone[k].issues[i]) <= 1

\* C7: a parsed Data tree, encoded and parsed again, is read successfully and
\* equals the original tree.
C7_RoundTrip ==
    reparsed.returned => (Mapped /\ reparsed.ok /\ reparsed.v = result.v)

\* a national tree with absent and present optional fields and two language
\* tags has made the round trip
C7_Witness ==
    /\ reparsed.returned
    /\ reparsed.ok
    /\ entry.module = "national"
    /\ LET issue == reparsed.v.country.issues[1]
       IN  /\ issue.reserve_info_text = None
           /\ Len(issue.issue_title) = 2
           /\ issue.issue_title[2].lang = "FR"
           /\ issue.cantons[1].districts = None
           /\ Populated(issue.cantons[1].communes)
           /\ issue.outcome.yes_votes = U32Max

----------------------------------------------------------------------------
(* Dataset Assembler: properties (SpecAssembler)                           *)

LatestStages == <<"catalog_fetch", "catalog_parse", "select", "dataset_fetch", "map">>

ByUrlStages == <<"dataset_fetch", "map">>

Stages == IF entry.latest THEN LatestStages ELSE ByUrlStages

IsPrefix(a, b) == Len(a) <= Len(b) /\ \A k \in DOMAIN a : a[k] = b[k]

\* the error a stage ends the call with
StageError(stage) ==
    CASE stage \in {"catalog_fetch", "dataset_fetch"} -> "reqwest"
      [] stage \in {"catalog_parse", "map"} -> "serde_json"
      [] stage = "select" -> "no resources found"

\* whether a stage, once run against these servers, fails
StageFails(stage) ==
    CASE stage = "catalog_fetch" -> catalog_response.t = "neterr"
      [] stage = "catalog_parse" -> ~from_str(Results_T, catalog_response).ok
      [] stage = "select" -> resources = <<>>
      [] stage = "dataset_fetch" -> dataset_response.t = "neterr"
      [] stage = "map" -> ~from_str(Data_T(entry.module), dataset_response).ok

\* C8: the stages of an entry point run in their order, each at most once;
\* the call ends at the first stage that fails, with that stage's error, and
\* returns a Data value only after all its stages succeeded; the dataset is
\* requested at the selected URL; the by-URL entry point never selects.
C8_StraightLine ==
    /\ IsPrefix(log, Stages)
    /\ \A k \in 1..(Len(log) - 1) : ~StageFails(log[k])
    /\ (~entry.latest) => (\A k \in DOMAIN log : log[k] # "select")
    /\ (log # <<>> /\ StageFails(log[Len(log)])) =>
          result = Failed(StageError(log[Len(log)]))
    /\ result.returned =>
          /\ pc = "done"
          /\ result.ok <=> (log = Stages /\ ~StageFails("map"))
          /\ result.ok => result.v = from_str(Data_T(entry.module), dataset_response).v
    /\ (~result.returned) => (log = <<>> \/ ~StageFails(log[Len(log)]))
    /\ (\E k \in DOMAIN log : log[k] = "dataset_fetch") =>
          IF entry.latest
          THEN /\ requested = <<CatalogUrl(entry.module), url>>
               /\ url = max_by_coverage(resources).v.url
          ELSE requested = <<url>>

\* get_latest has returned a Data value after all five steps, the dataset
\* requested at the URL of the catalog's latest resource
C8_Witness ==
    /\ entry.latest
    /\ result.returned
    /\ result.ok
    /\ log = LatestStages
    /\ requested = <<CatalogUrl(entry.module), <<117, 50>>>>

====
